---- MODULE Spec2Model ----
(***************************************************************************)
(* A model of zoe: src/zoe/main.py wires                                   *)
(*   obtain_openapi_dict -> list_api_endpoints -> test_api_endpoints       *)
(* from src/zoe/endpoint.py.  Python strings are sequences of one-         *)
(* character strings, Python dicts are records (DOMAIN d is d.keys()), an  *)
(* ordered dict that is iterated is a sequence of [key, value] items, and  *)
(* an unhandled exception moves pc to "crashed" with the exception in      *)
(* error.                                                                  *)
(***************************************************************************)
EXTENDS Integers, Sequences, FiniteSets, TLC

\* --------------------------------------------------------------- bounds
\* Operations (path template, method key) in one fetched document.
MaxOps == 3
\* Characters of a path template handed to the synthesizer.
MaxTemplateLen == 6
\* Parameters of an operation whose parameters are all path parameters.
MaxPathParams == 2
\* Parameters of an operation that mixes query, path and header parameters.
MaxParams == 3
\* Entries of a list handed directly to test_api_endpoints.
MaxEndpoints == 3

VARIABLES
    remote,              \* what <api_url>/openapi.json answers (the environment)
    api_url,             \* main.py: api_url
    bearer_token,        \* main.py: bearer_token / test_api_endpoints argument
    openapi_dict,        \* main.py: openapi_dict
    api_endpoints,       \* list_api_endpoints: api_endpoints, then main.py's
    pathIdx,             \* list_api_endpoints: position of `for path in ...`
    methodIdx,           \* list_api_endpoints: position of `for method in ...`
    api_endpoint,        \* obtain_get_endpoint: api_endpoint
    first_query_paramn,  \* obtain_get_endpoint: first_query_paramn
    paramIdx,            \* obtain_get_endpoint: position of `for parameter in ...`
    runIdx,              \* test_api_endpoints: position of `for endpoint in ...`
    sent,                \* the calls made to requests.request, in order
    stdout,              \* what was written to standard output, in order
    error,               \* the exception that ended the process, if any
    pc                   \* where the script is

vars == <<remote, api_url, bearer_token, openapi_dict, api_endpoints, pathIdx,
          methodIdx, api_endpoint, first_query_paramn, paramIdx, runIdx, sent,
          stdout, error, pc>>

\* ------------------------------------------------------- Python values
NoneVal == [type |-> "NoneType"]
IntVal(n) == [type |-> "int", val |-> n]
StrVal(s) == [type |-> "str", val |-> s]

NoError == [type |-> "none"]
Raise(t, f, a) == [type |-> t, frame |-> f, arg |-> a]

DigitChars == <<"0", "1", "2", "3", "4", "5", "6", "7", "8", "9">>

RECURSIVE NatToStr(_)
NatToStr(n) ==
    IF n < 10 THEN <<DigitChars[n + 1]>>
    ELSE NatToStr(n \div 10) \o <<DigitChars[(n % 10) + 1]>>

\* str(v) for the values a JSON document holds here.
Str(v) ==
    IF v.type = "int"
    THEN IF v.val < 0 THEN <<"-">> \o NatToStr(-v.val) ELSE NatToStr(v.val)
    ELSE IF v.type = "str" THEN v.val
    ELSE <<"N", "o", "n", "e">>

UpperChars == <<"A", "B", "C", "D", "E", "F", "G", "H", "I", "J", "K", "L", "M",
                "N", "O", "P", "Q", "R", "S", "T", "U", "V", "W", "X", "Y", "Z">>
LowerChars == <<"a", "b", "c", "d", "e", "f", "g", "h", "i", "j", "k", "l", "m",
                "n", "o", "p", "q", "r", "s", "t", "u", "v", "w", "x", "y", "z">>

\* The lower-case letter of each upper-case letter.
ToLower ==
    [c \in {UpperChars[i] : i \in 1..26} |->
        LowerChars[CHOOSE i \in 1..26 : UpperChars[i] = c]]

LowerChar(c) == IF c \in DOMAIN ToLower THEN ToLower[c] ELSE c

\* str.lower()
Lower(s) == [i \in 1..Len(s) |-> LowerChar(s[i])]

\* Only the first occurrence of old is replaced.
RECURSIVE ReplaceFirst(_, _, _)
ReplaceFirst(s, old, new) ==
    IF Len(s) < Len(old) THEN s
    ELSE IF SubSeq(s, 1, Len(old)) = old
         THEN new \o SubSeq(s, Len(old) + 1, Len(s))
         ELSE <<Head(s)>> \o ReplaceFirst(Tail(s), old, new)

\* str.replace(old, new) for a non-empty old: every non-overlapping
\* occurrence, found scanning left to right; new is not scanned again.
RECURSIVE Replace(_, _, _)
Replace(s, old, new) ==
    IF Len(s) < Len(old) THEN s
    ELSE IF SubSeq(s, 1, Len(old)) = old
         THEN new \o Replace(SubSeq(s, Len(old) + 1, Len(s)), old, new)
         ELSE <<Head(s)>> \o Replace(Tail(s), old, new)

\* "{" + parameter["name"] + "}"
Placeholder(name) == <<"{">> \o name \o <<"}">>


GetStr == <<"g", "e", "t">>
PostStr == <<"p", "o", "s", "t">>
PatchStr == <<"p", "a", "t", "c", "h">>
PutStr == <<"p", "u", "t">>
DeleteStr == <<"d", "e", "l", "e", "t", "e">>
InvalidMethodPrefix ==
    <<"I", "n", "v", "a", "l", "i", "d", " ", "m", "e", "t", "h", "o", "d", ":", " ">>

\* ------------------------------------------------- obtain_get_endpoint
Continue(url, first) == [ok |-> TRUE, url |-> url, first |-> first]
Fail(key) == [ok |-> FALSE, error |-> Raise("KeyError", "obtain_get_endpoint", key)]

\* Lines 98-102: "?" for the first query parameter of the call, "&" after.
QuerySeparator(first) == IF first THEN "?" ELSE "&"

\* Lines 103-109: the pair name=value appended after the separator; a
\* parameter without a "schema" key gets no pair at all.
QueryPair(url, parameter) ==
    IF "schema" \in DOMAIN parameter
    THEN IF "const" \in DOMAIN parameter.schema
         THEN Continue(url \o parameter.name \o <<"=">> \o Str(parameter.schema.const), FALSE)
         ELSE IF "default" \in DOMAIN parameter.schema
         THEN Continue(url \o parameter.name \o <<"=">> \o Str(parameter.schema.default), FALSE)
         ELSE IF "example" \in DOMAIN parameter
         THEN Continue(url \o parameter.name \o <<"=">> \o Str(parameter.example), FALSE)
         ELSE Fail("example")
    ELSE Continue(url, FALSE)

\* The path branch if a missing constant were skipped instead of raising.
PathSubstituteSkip(url, first, parameter) ==
    IF "schema" \in DOMAIN parameter /\ "const" \in DOMAIN parameter.schema
    THEN Continue(Replace(url, Placeholder(parameter.name),
                          Str(parameter.schema.const)), first)
    ELSE Continue(url, first)

\* The path branch replacing only the first placeholder.
PathSubstituteFirst(url, first, parameter) ==
    IF "schema" \notin DOMAIN parameter THEN Fail("schema")
    ELSE IF "const" \notin DOMAIN parameter.schema THEN Fail("const")
    ELSE Continue(ReplaceFirst(url, Placeholder(parameter.name),
                               Str(parameter.schema.const)), first)

\* Lines 90-95: parameter["schema"]["const"] is subscripted without a
\* presence check, so a missing key raises KeyError.
PathSubstitute(url, first, parameter) ==
    IF "schema" \notin DOMAIN parameter THEN Fail("schema")
    ELSE IF "const" \notin DOMAIN parameter.schema THEN Fail("const")
    ELSE Continue(Replace(url, Placeholder(parameter.name),
                          Str(parameter.schema.const)), first)

\* Lines 90-109: one iteration of `for parameter in api_dict["parameters"]`.
ApplyParameter(url, first, parameter) ==
    IF parameter["in"] = "path" THEN PathSubstitute(url, first, parameter)
    ELSE IF parameter["in"] = "query"
         THEN QueryPair(url \o <<QuerySeparator(first)>>, parameter)
         ELSE Continue(url, first)

\* Lines 111-117.
EndpointDict(url) == [url |-> url, method |-> "GET", data |-> NoneVal]

\* ----------------------------------------------- generate_endpoint_dict
\* Lines 145-166: the branch generate_endpoint_dict takes for a method.
MethodBranch(method) ==
    IF Lower(method) = GetStr THEN "get"
    ELSE IF Lower(method) = PostStr THEN "none"
    ELSE IF Lower(method) = PatchStr THEN "none"
    ELSE IF Lower(method) = PutStr THEN "none"
    ELSE IF Lower(method) = DeleteStr THEN "none"
    ELSE "raise"

InvalidMethodLowered(method) ==
    Raise("ValueError", "generate_endpoint_dict", InvalidMethodPrefix \o Lower(method))

\* Line 166: ValueError(f"Invalid method: {method}")
InvalidMethod(method) ==
    Raise("ValueError", "generate_endpoint_dict", InvalidMethodPrefix \o method)


\* ---------------------------------------------------------- the inputs
Item(k, v) == [key |-> k, value |-> v]

ApiUrl == <<"x">>
Token == StrVal(<<"t">>)

NameP == <<"p">>
NameQ == <<"q">>
NameH == <<"h">>
PlaceholderP == <<"{", "p", "}">>

PathConst42 == [name |-> NameP, in |-> "path", schema |-> [const |-> IntVal(42)]]
PathConstBraces == [name |-> NameP, in |-> "path", schema |-> [const |-> StrVal(PlaceholderP)]]
PathConstP == [name |-> NameP, in |-> "path", schema |-> [const |-> StrVal(NameP)]]
PathNoConst == [name |-> NameP, in |-> "path", schema |-> [type |-> "integer"]]
PathNoSchema == [name |-> NameP, in |-> "path"]

QueryConst == [name |-> NameQ, in |-> "query",
               schema |-> [const |-> IntVal(1), default |-> IntVal(2)], example |-> IntVal(3)]
QueryDefault == [name |-> NameQ, in |-> "query", schema |-> [default |-> IntVal(2)],
                 example |-> IntVal(3)]
QueryExample == [name |-> NameQ, in |-> "query", schema |-> [type |-> "integer"],
                 example |-> IntVal(3)]
QueryBareExample == [name |-> NameQ, in |-> "query", example |-> IntVal(3)]
QueryMissing == [name |-> NameQ, in |-> "query", schema |-> [type |-> "integer"]]
QueryBare == [name |-> NameQ, in |-> "query"]
HeaderParam == [name |-> NameH, in |-> "header", schema |-> [const |-> IntVal(5)]]

\* The operation objects of the documents of the whole pipeline.
OpPlain == [parameters |-> <<>>]
OpPath == [parameters |-> <<PathConst42>>]
OpQuery == [parameters |-> <<QueryConst>>]
OpMissing == [parameters |-> <<QueryMissing>>]
OpBare == [parameters |-> <<QueryBare>>]

TraceStr == <<"t", "r", "a", "c", "e">>
UpperTraceStr == <<"T", "R", "A", "C", "E">>
UpperGetStr == <<"G", "E", "T">>

MethodItems ==
    { Item(GetStr, OpPath), Item(GetStr, OpMissing), Item(GetStr, OpBare),
      Item(UpperGetStr, OpQuery), Item(PostStr, OpMissing), Item(PatchStr, OpPlain),
      Item(PutStr, OpQuery), Item(DeleteStr, OpBare), Item(TraceStr, OpMissing),
      Item(UpperTraceStr, OpPlain) }

Templates == { <<"/", "a">>, <<"/">> \o PlaceholderP }

\* A dict has no key twice.
DistinctKeys(items) ==
    \A i, j \in 1..Len(items) : i < j => items[i].key # items[j].key

MethodDicts(n) == { md \in [1..n -> MethodItems] : DistinctKeys(md) }

\* The orders in which the templates can be the keys of a paths dict.
TemplateOrders ==
    UNION { { ts \in [1..n -> Templates] : \A i, j \in 1..n : i < j => ts[i] # ts[j] } :
            n \in 0..Cardinality(Templates) }

\* The document with the path templates ts, in that order, and the method
\* dict mds[i] under ts[i].
Document(ts, mds) == [paths |-> [i \in 1..Len(ts) |-> Item(ts[i], mds[i])]]

\* What /openapi.json may answer: nothing, a body that is no JSON, a JSON
\* document without "paths", or a document of at most MaxOps operations.
RemoteAnswers(r) ==
    \/ r \in { [kind |-> "unreachable"], [kind |-> "malformed"],
               [kind |-> "json", doc |-> [openapi |-> "3.0.0"]] }
    \/ \E ts \in TemplateOrders, n1 \in 0..MaxOps :
          \E n2 \in 0..(MaxOps - n1) :
             /\ Len(ts) < 1 => n1 = 0
             /\ Len(ts) < 2 => n2 = 0
             /\ \E m1 \in MethodDicts(n1), m2 \in MethodDicts(n2) :
                   r = [kind |-> "json", doc |-> Document(ts, <<m1, m2>>)]

\* --------------------------------------------------------------- Init
\* main.py, lines 3-4: the state before line 6 runs.
Init ==
    /\ RemoteAnswers(remote)
    /\ api_url = ApiUrl
    /\ bearer_token = Token
    /\ openapi_dict = NoneVal
    /\ api_endpoints = <<>>
    /\ pathIdx = 0
    /\ methodIdx = 0
    /\ api_endpoint = <<>>
    /\ first_query_paramn = FALSE
    /\ paramIdx = 0
    /\ runIdx = 0
    /\ sent = <<>>
    /\ stdout = <<>>
    /\ error = NoError
    /\ pc = "fetch"

Crash(e) == /\ error' = e
            /\ pc' = "crashed"

\* ---------------------------------------------------- obtain_openapi_dict
\* Line 54: requests.get raises outside the try block.
FetchUnreachable ==
    /\ pc = "fetch"
    /\ remote.kind = "unreachable"
    /\ Crash(Raise("ConnectionError", "obtain_openapi_dict", <<>>))
    /\ UNCHANGED <<remote, api_url, bearer_token, openapi_dict, api_endpoints, pathIdx,
                   methodIdx, api_endpoint, first_query_paramn, paramIdx, runIdx, sent,
                   stdout>>

FetchMalformedRaises ==
    /\ pc = "fetch"
    /\ remote.kind = "malformed"
    /\ Crash(Raise("JSONDecodeError", "obtain_openapi_dict", <<>>))
    /\ UNCHANGED <<remote, api_url, bearer_token, openapi_dict, api_endpoints, pathIdx,
                   methodIdx, api_endpoint, first_query_paramn, paramIdx, runIdx, sent,
                   stdout>>

\* Lines 55-60: contents.json() raises, the handler reports it and the
\* function falls off its end, returning None to main.py line 6.
FetchMalformed ==
    /\ pc = "fetch"
    /\ remote.kind = "malformed"
    /\ stdout' = Append(stdout, [kind |-> "error", frame |-> "obtain_openapi_dict"])
    /\ openapi_dict' = NoneVal
    /\ pc' = "list"
    /\ UNCHANGED <<remote, api_url, bearer_token, api_endpoints, pathIdx, methodIdx,
                   api_endpoint, first_query_paramn, paramIdx, runIdx, sent, error>>

\* Lines 53-58.
FetchOk ==
    /\ pc = "fetch"
    /\ remote.kind = "json"
    /\ openapi_dict' = remote.doc
    /\ pc' = "list"
    /\ UNCHANGED <<remote, api_url, bearer_token, api_endpoints, pathIdx, methodIdx,
                   api_endpoint, first_query_paramn, paramIdx, runIdx, sent, stdout,
                   error>>

\* ----------------------------------------------------- list_api_endpoints
\* Lines 183-185: api_endpoints = [] and the first api_dict["paths"].
ListBegin ==
    /\ pc = "list"
    /\ api_endpoints' = <<>>
    /\ IF openapi_dict = NoneVal
       THEN /\ Crash(Raise("TypeError", "list_api_endpoints", "paths"))
            /\ UNCHANGED pathIdx
       ELSE IF "paths" \notin DOMAIN openapi_dict
       THEN /\ Crash(Raise("KeyError", "list_api_endpoints", "paths"))
            /\ UNCHANGED pathIdx
       ELSE /\ pathIdx' = 0
            /\ pc' = "paths"
            /\ UNCHANGED error
    /\ UNCHANGED <<remote, api_url, bearer_token, openapi_dict, methodIdx, api_endpoint,
                   first_query_paramn, paramIdx, runIdx, sent, stdout>>

\* Lines 185-186: the next path of the outer loop and its method keys.
ListNextPath ==
    /\ pc = "paths"
    /\ pathIdx < Len(openapi_dict.paths)
    /\ pathIdx' = pathIdx + 1
    /\ methodIdx' = 0
    /\ pc' = "methods"
    /\ UNCHANGED <<remote, api_url, bearer_token, openapi_dict, api_endpoints,
                   api_endpoint, first_query_paramn, paramIdx, runIdx, sent, stdout,
                   error>>

\* Line 188: the inner loop is exhausted.
ListMethodsDone ==
    /\ pc = "methods"
    /\ methodIdx = Len(openapi_dict.paths[pathIdx].value)
    /\ pc' = "paths"
    /\ UNCHANGED <<remote, api_url, bearer_token, openapi_dict, api_endpoints, pathIdx,
                   methodIdx, api_endpoint, first_query_paramn, paramIdx, runIdx, sent,
                   stdout, error>>

\* Line 71 / 188: the method key the inner loop takes next.
NextMethod == openapi_dict.paths[pathIdx].value[methodIdx + 1].key
\* Line 191: api_dict["paths"][path][method]
NextOperation == openapi_dict.paths[pathIdx].value[methodIdx + 1].value
\* Line 189: new_path = api_url + path
NewPath == api_url \o openapi_dict.paths[pathIdx].key

HasNextMethod ==
    /\ pc = "methods"
    /\ methodIdx < Len(openapi_dict.paths[pathIdx].value)

EnterGetStale(new_path) ==
    /\ api_endpoint' = new_path
    /\ paramIdx' = 0
    /\ UNCHANGED first_query_paramn

\* Lines 146, 88: obtain_get_endpoint is entered with its fresh locals.
EnterGet(new_path) ==
    /\ api_endpoint' = new_path
    /\ first_query_paramn' = TRUE
    /\ paramIdx' = 0

\* Lines 188-192, 145-146, 88-89: a get operation; api_dict["parameters"]
\* is subscripted when the loop of obtain_get_endpoint starts.
ListGet ==
    /\ HasNextMethod
    /\ MethodBranch(NextMethod) = "get"
    /\ methodIdx' = methodIdx + 1
    /\ IF "parameters" \in DOMAIN NextOperation
       THEN /\ EnterGet(NewPath)
            /\ pc' = "synth"
            /\ UNCHANGED error
       ELSE /\ Crash(Raise("KeyError", "obtain_get_endpoint", "parameters"))
            /\ UNCHANGED <<api_endpoint, first_query_paramn, paramIdx>>
    /\ UNCHANGED <<remote, api_url, bearer_token, openapi_dict, api_endpoints, pathIdx,
                   runIdx, sent, stdout>>

ListStubDropsNone ==
    /\ HasNextMethod
    /\ MethodBranch(NextMethod) = "none"
    /\ methodIdx' = methodIdx + 1
    /\ stdout' = Append(stdout, [kind |-> "listed", value |-> NoneVal])
    /\ UNCHANGED <<remote, api_url, bearer_token, openapi_dict, api_endpoints, pathIdx,
                   api_endpoint, first_query_paramn, paramIdx, runIdx, sent, error, pc>>

\* Lines 188-195, 149-164: post, patch, put and delete return None, which is
\* reported and appended like any other result.
ListStub ==
    /\ HasNextMethod
    /\ MethodBranch(NextMethod) = "none"
    /\ methodIdx' = methodIdx + 1
    /\ stdout' = Append(stdout, [kind |-> "listed", value |-> NoneVal])
    /\ api_endpoints' = Append(api_endpoints, NoneVal)
    /\ UNCHANGED <<remote, api_url, bearer_token, openapi_dict, pathIdx, api_endpoint,
                   first_query_paramn, paramIdx, runIdx, sent, error, pc>>

\* Lines 188-192, 165-166: any other method raises ValueError.
ListInvalid ==
    /\ HasNextMethod
    /\ MethodBranch(NextMethod) = "raise"
    /\ methodIdx' = methodIdx + 1
    /\ Crash(InvalidMethod(NextMethod))
    /\ UNCHANGED <<remote, api_url, bearer_token, openapi_dict, api_endpoints, pathIdx,
                   api_endpoint, first_query_paramn, paramIdx, runIdx, sent, stdout>>

\* The operation obtain_get_endpoint is working on.
CurOperation == openapi_dict.paths[pathIdx].value[methodIdx].value

\* Lines 89-109: one parameter of the loop.
SynthStep ==
    /\ pc = "synth"
    /\ paramIdx < Len(CurOperation.parameters)
    /\ LET r == ApplyParameter(api_endpoint, first_query_paramn,
                               CurOperation.parameters[paramIdx + 1])
       IN  IF r.ok
           THEN /\ api_endpoint' = r.url
                /\ first_query_paramn' = r.first
                /\ paramIdx' = paramIdx + 1
                /\ UNCHANGED <<error, pc>>
           ELSE /\ Crash(r.error)
                /\ UNCHANGED <<api_endpoint, first_query_paramn, paramIdx>>
    /\ UNCHANGED <<remote, api_url, bearer_token, openapi_dict, api_endpoints, pathIdx,
                   methodIdx, runIdx, sent, stdout>>

\* Lines 111-117, 148, 194-195: the descriptor is built, returned, reported
\* and appended.
SynthReturn ==
    /\ pc = "synth"
    /\ paramIdx = Len(CurOperation.parameters)
    /\ stdout' = Append(stdout, [kind |-> "listed", value |-> EndpointDict(api_endpoint)])
    /\ api_endpoints' = Append(api_endpoints, EndpointDict(api_endpoint))
    /\ pc' = "methods"
    /\ UNCHANGED <<remote, api_url, bearer_token, openapi_dict, pathIdx, methodIdx,
                   api_endpoint, first_query_paramn, paramIdx, runIdx, sent, error>>

\* Line 197 and main.py line 8: the list is returned and handed to
\* test_api_endpoints.
ListReturn ==
    /\ pc = "paths"
    /\ pathIdx = Len(openapi_dict.paths)
    /\ runIdx' = 1
    /\ pc' = "run"
    /\ UNCHANGED <<remote, api_url, bearer_token, openapi_dict, api_endpoints, pathIdx,
                   methodIdx, api_endpoint, first_query_paramn, paramIdx, sent, stdout,
                   error>>

\* ----------------------------------------------------- test_api_endpoints
\* str.encode('utf-8')
Encode(s) == [type |-> "bytes", val |-> s]

BearerPrefix == <<"B", "e", "a", "r", "e", "r", " ">>
AuthorizationStr ==
    <<"A", "u", "t", "h", "o", "r", "i", "z", "a", "t", "i", "o", "n">>

\* Lines 205-211.
EncodedHeaders(token) ==
    IF token # NoneVal
    THEN <<Item(Encode(AuthorizationStr), Encode(BearerPrefix \o Str(token)))>>
    ELSE NoneVal

\* What requests.request may do with a call: answer, or raise.
StatusCodes == {200, 500}
Outcomes ==
    { [kind |-> "response", status_code |-> c] : c \in StatusCodes }
    \cup { [kind |-> "raise", type |-> "JSONDecodeError"],
           [kind |-> "raise", type |-> "ConnectionError"] }

\* Lines 225-233: what one iteration writes; line 226 takes the method from
\* endpoint["url"].  The elapsed time is left out.
Report(endpoint, outcome) ==
    IF outcome.kind = "response"
    THEN [kind |-> "checked", url |-> endpoint.url, method |-> endpoint.url,
          status |-> outcome.status_code]
    ELSE IF outcome.type = "JSONDecodeError"
    THEN [kind |-> "error", msg |-> "Invalid JSON data"]
    ELSE [kind |-> "error", msg |-> outcome.type]

\* Lines 31-36: the call handed to requests.request.
Request(endpoint, headers) ==
    [method |-> endpoint.method, headers |-> headers, url |-> endpoint.url,
     data |-> endpoint.data]

RunStepAborts ==
    /\ pc = "run"
    /\ runIdx <= Len(api_endpoints)
    /\ LET endpoint == api_endpoints[runIdx]
       IN  \/ /\ endpoint = NoneVal
              /\ Crash(Raise("TypeError", "test_api_endpoints", "url"))
              /\ UNCHANGED <<sent, stdout, runIdx>>
           \/ /\ endpoint # NoneVal
              /\ \E outcome \in Outcomes :
                    /\ sent' = Append(sent, Request(endpoint, EncodedHeaders(bearer_token)))
                    /\ IF outcome.kind = "response"
                       THEN /\ stdout' = Append(stdout, Report(endpoint, outcome))
                            /\ runIdx' = runIdx + 1
                            /\ UNCHANGED <<error, pc>>
                       ELSE /\ Crash(Raise(outcome.type, "test_api_endpoints", <<>>))
                            /\ UNCHANGED <<stdout, runIdx>>
    /\ UNCHANGED <<remote, api_url, bearer_token, openapi_dict, api_endpoints, pathIdx,
                   methodIdx, api_endpoint, first_query_paramn, paramIdx>>

RunStepRequestsNone ==
    /\ pc = "run"
    /\ runIdx <= Len(api_endpoints)
    /\ LET endpoint == api_endpoints[runIdx]
       IN  \/ /\ endpoint = NoneVal
              /\ sent' = Append(sent, [method |-> "GET", headers |-> EncodedHeaders(bearer_token),
                                       url |-> <<>>, data |-> NoneVal])
              /\ stdout' = Append(stdout, [kind |-> "error", msg |-> "TypeError"])
           \/ /\ endpoint # NoneVal
              /\ \E outcome \in Outcomes :
                    /\ sent' = Append(sent, Request(endpoint, EncodedHeaders(bearer_token)))
                    /\ stdout' = Append(stdout, Report(endpoint, outcome))
    /\ runIdx' = runIdx + 1
    /\ UNCHANGED <<remote, api_url, bearer_token, openapi_dict, api_endpoints, pathIdx,
                   methodIdx, api_endpoint, first_query_paramn, paramIdx, error, pc>>

\* Lines 204-233: one iteration of `for endpoint in api_endpoints`.  A None
\* entry raises TypeError at endpoint["url"], inside the try block and before
\* any request; every exception is caught and reported, and the loop goes on.
RunStep ==
    /\ pc = "run"
    /\ runIdx <= Len(api_endpoints)
    /\ LET endpoint == api_endpoints[runIdx]
       IN  \/ /\ endpoint = NoneVal
              /\ stdout' = Append(stdout, [kind |-> "error", msg |-> "TypeError"])
              /\ UNCHANGED sent
           \/ /\ endpoint # NoneVal
              /\ \E outcome \in Outcomes :
                    /\ sent' = Append(sent, Request(endpoint, EncodedHeaders(bearer_token)))
                    /\ stdout' = Append(stdout, Report(endpoint, outcome))
    /\ runIdx' = runIdx + 1
    /\ UNCHANGED <<remote, api_url, bearer_token, openapi_dict, api_endpoints, pathIdx,
                   methodIdx, api_endpoint, first_query_paramn, paramIdx, error, pc>>

\* Line 204: the loop is exhausted and the script ends.
RunReturn ==
    /\ pc = "run"
    /\ runIdx > Len(api_endpoints)
    /\ pc' = "done"
    /\ UNCHANGED <<remote, api_url, bearer_token, openapi_dict, api_endpoints, pathIdx,
                   methodIdx, api_endpoint, first_query_paramn, paramIdx, runIdx, sent,
                   stdout, error>>

\* ------------------------------------------------------ specifications
Next ==
    \/ FetchUnreachable \/ FetchMalformed \/ FetchOk
    \/ ListBegin \/ ListNextPath \/ ListMethodsDone
    \/ ListGet \/ ListStub \/ ListInvalid
    \/ SynthStep \/ SynthReturn \/ ListReturn
    \/ RunStep \/ RunReturn

\* main.py run once.
Spec == Init /\ [][Next]_vars


\* ---- obtain_get_endpoint on its own: a document of one get operation ----
TemplateChars == {"{", "p", "}"}
TemplateStrings(n) == UNION { [1..k -> TemplateChars] : k \in 0..n }

PathParams == {PathConst42, PathConstBraces, PathConstP, PathNoConst}
MixedParams == {QueryConst, QueryDefault, QueryExample, QueryBareExample, QueryMissing,
                QueryBare, HeaderParam, PathConst42, PathNoConst, PathNoSchema}

ParamLists(universe, n) == UNION { [1..k -> universe] : k \in 0..n }

OneGetDocument(template, parameters) ==
    [paths |-> <<Item(template, <<Item(GetStr, [parameters |-> parameters])>>)>>]

\* list_api_endpoints is called with a one-operation document; the slot of
\* the local first_query_paramn holds whatever an earlier call left in it.
InitSynth ==
    /\ \/ /\ \E t \in TemplateStrings(MaxTemplateLen), ps \in ParamLists(PathParams, MaxPathParams) :
                openapi_dict = OneGetDocument(t, ps)
          /\ first_query_paramn = FALSE
       \/ /\ \E t \in Templates, ps \in ParamLists(MixedParams, MaxParams) :
                openapi_dict = OneGetDocument(t, ps)
          /\ first_query_paramn \in BOOLEAN
    /\ remote = [kind |-> "json", doc |-> openapi_dict]
    /\ api_url = ApiUrl
    /\ bearer_token = Token
    /\ api_endpoints = <<>>
    /\ pathIdx = 0
    /\ methodIdx = 0
    /\ api_endpoint = <<>>
    /\ paramIdx = 0
    /\ runIdx = 0
    /\ sent = <<>>
    /\ stdout = <<>>
    /\ error = NoError
    /\ pc = "list"

NextSynth ==
    \/ ListBegin \/ ListNextPath \/ ListMethodsDone \/ ListGet
    \/ SynthStep \/ SynthReturn \/ ListReturn

SpecSynth == InitSynth /\ [][NextSynth]_vars

\* ---- test_api_endpoints on its own: any list, with or without a token ----
DescriptorA == EndpointDict(<<"x", "/", "a">>)
DescriptorB == EndpointDict(<<"x", "/", "b">>)
EndpointEntries == {NoneVal, DescriptorA, DescriptorB}

InitRunner ==
    /\ api_endpoints \in UNION { [1..n -> EndpointEntries] : n \in 0..MaxEndpoints }
    /\ bearer_token \in {NoneVal, Token}
    /\ remote = [kind |-> "none"]
    /\ api_url = ApiUrl
    /\ openapi_dict = NoneVal
    /\ pathIdx = 0
    /\ methodIdx = 0
    /\ api_endpoint = <<>>
    /\ first_query_paramn = FALSE
    /\ paramIdx = 0
    /\ runIdx = 1
    /\ sent = <<>>
    /\ stdout = <<>>
    /\ error = NoError
    /\ pc = "run"

NextRunner == RunStep \/ RunReturn

\* The loop is synchronous and every request is taken to answer or raise,
\* so an enabled iteration is eventually taken.
SpecRunner == InitRunner /\ [][NextRunner]_vars /\ WF_vars(NextRunner)


\* ============================================================== claims
Contains(s, sub) ==
    \E i \in 0..(Len(s) - Len(sub)) : SubSeq(s, i + 1, i + Len(sub)) = sub

Count(s, c) == Cardinality({ i \in 1..Len(s) : s[i] = c })

\* The listing pass has a document whose paths it can walk.
Walking == pc \notin {"fetch", "list"} /\ "paths" \in DOMAIN openapi_dict

\* Under SpecSynth: the template and the parameters of the one operation,
\* and the URL obtain_get_endpoint returned for it.
SynthTemplate == openapi_dict.paths[1].key
SynthParams == openapi_dict.paths[1].value[1].value.parameters
Returned == Len(api_endpoints) = 1
ReturnedUrl == api_endpoints[1].url

IsPathConst(q) ==
    q["in"] = "path" /\ "schema" \in DOMAIN q /\ "const" \in DOMAIN q.schema
IsPathNoConst(q) ==
    q["in"] = "path" /\ ("schema" \notin DOMAIN q \/ "const" \notin DOMAIN q.schema)
IsQuery(q) == q["in"] = "query"

SchemaOf(q) == IF "schema" \in DOMAIN q THEN q.schema ELSE [none |-> TRUE]
HasQueryValue(q) ==
    "const" \in DOMAIN SchemaOf(q) \/ "default" \in DOMAIN SchemaOf(q)
        \/ "example" \in DOMAIN q
\* schema.const, else schema.default, else the top-level example.
ResolvedValue(q) ==
    IF "const" \in DOMAIN SchemaOf(q) THEN q.schema.const
    ELSE IF "default" \in DOMAIN SchemaOf(q) THEN q.schema.default
    ELSE q.example

\* The values a parameter can put into the URL.
ValuesOf(q) ==
    { SchemaOf(q)[k] : k \in DOMAIN SchemaOf(q) \cap {"const", "default"} }
    \cup { q[k] : k \in DOMAIN q \cap {"example"} }

BraceFree(s) == \A i \in 1..Len(s) : s[i] \notin {"{", "}"}
NotNested(s) ==
    \A i, j \in 1..Len(s) :
        (i < j /\ s[i] = "{" /\ s[j] = "{") => \E k \in (i + 1)..(j - 1) : s[k] = "}"
BraceSafe ==
    /\ NotNested(api_url \o SynthTemplate)
    /\ \A i \in 1..Len(SynthParams) :
          /\ BraceFree(SynthParams[i].name)
          /\ \A v \in ValuesOf(SynthParams[i]) : BraceFree(Str(v))

FirstOfItsName(i) ==
    \A j \in 1..(i - 1) :
        SynthParams[j]["in"] = "path" => SynthParams[j].name # SynthParams[i].name

\* C2 as claimed: whenever obtain_get_endpoint returns for a template that
\* contains {p} and a path parameter p with schema.const = v, the returned
\* URL contains str(v) and no literal {p}.
PathSubstitutionAlways ==
    Returned =>
        \A i \in 1..Len(SynthParams) :
            (IsPathConst(SynthParams[i])
               /\ Contains(SynthTemplate, Placeholder(SynthParams[i].name)))
            => /\ Contains(ReturnedUrl, Str(SynthParams[i].schema.const))
               /\ ~Contains(ReturnedUrl, Placeholder(SynthParams[i].name))

\* C2 as amended: the same, provided the braces of the URL are not nested,
\* no parameter name and no constant, default or example value contains a
\* brace, and p is the first path parameter of that name.
PathSubstitution ==
    (Returned /\ BraceSafe) =>
        \A i \in 1..Len(SynthParams) :
            (IsPathConst(SynthParams[i]) /\ FirstOfItsName(i)
               /\ Contains(SynthTemplate, Placeholder(SynthParams[i].name)))
            => /\ Contains(ReturnedUrl, Str(SynthParams[i].schema.const))
               /\ ~Contains(ReturnedUrl, Placeholder(SynthParams[i].name))

\* Both placeholders of {p}{p} were replaced by 42.
PathSubstitutionWitness ==
    /\ Returned
    /\ SynthTemplate = PlaceholderP \o PlaceholderP
    /\ SynthParams = <<PathConst42>>
    /\ ReturnedUrl = <<"x", "4", "2", "4", "2">>

\* Query parameters among the first k parameters of the operation.
QueryCount(k) == Cardinality({ i \in 1..k : IsQuery(SynthParams[i]) })

SeparatorsOf(url, k) ==
    /\ Count(url, "?") = IF QueryCount(k) >= 1 THEN 1 ELSE 0
    /\ Count(url, "&") = IF QueryCount(k) >= 1 THEN QueryCount(k) - 1 ELSE 0

SeparatorCounts ==
    /\ pc = "synth" => SeparatorsOf(api_endpoint, paramIdx)
    /\ Returned => SeparatorsOf(ReturnedUrl, Len(SynthParams))

SeparatorStep ==
    (pc = "synth" /\ pc' = "synth" /\ paramIdx' = paramIdx + 1)
    => IF IsQuery(SynthParams[paramIdx'])
       THEN /\ Len(api_endpoint') > Len(api_endpoint)
            /\ SubSeq(api_endpoint', 1, Len(api_endpoint) + 1)
                 = api_endpoint \o <<IF QueryCount(paramIdx) = 0 THEN "?" ELSE "&">>
       ELSE /\ Count(api_endpoint', "?") = Count(api_endpoint, "?")
            /\ Count(api_endpoint', "&") = Count(api_endpoint, "&")

\* C3: in every call, whatever an earlier call left behind, each query
\* parameter appends one separator at the end of the URL, "?" for the first
\* query parameter of the operation and "&" for each later one, and other
\* parameters add none; so the URL holds one "?" and n-1 "&" for n >= 1 query
\* parameters and neither for n = 0.
QuerySeparators == []SeparatorCounts /\ [][SeparatorStep]_vars

\* query, header, query: one "?", one "&", the header adds nothing.
QuerySeparatorsWitness ==
    /\ Returned
    /\ SynthParams = <<QueryConst, HeaderParam, QueryDefault>>
    /\ ReturnedUrl = <<"x", "/", "a", "?", "q", "=", "1", "&", "q", "=", "2">>

\* C4 as claimed: every query parameter that carries a const, a default or an
\* example, with or without a schema object, has name=value right after its
\* separator in the returned URL.
QueryValueResolution ==
    Returned =>
        \A i \in 1..Len(SynthParams) :
            (IsQuery(SynthParams[i]) /\ HasQueryValue(SynthParams[i]))
            => Contains(ReturnedUrl,
                        <<IF QueryCount(i - 1) = 0 THEN "?" ELSE "&">>
                        \o SynthParams[i].name \o <<"=">>
                        \o Str(ResolvedValue(SynthParams[i])))

\* Parameters other than i that cannot make the synthesis raise.
OthersResolvable(i) ==
    \A j \in 1..Len(SynthParams) :
        j # i => /\ ~IsPathNoConst(SynthParams[j])
                 /\ IsQuery(SynthParams[j]) => HasQueryValue(SynthParams[j])

RECURSIVE Flatten(_)
Flatten(ps) ==
    IF ps = <<>> THEN <<>>
    ELSE [ i \in 1..Len(Head(ps).value) |->
             [template |-> Head(ps).key, method |-> Head(ps).value[i].key,
              operation |-> Head(ps).value[i].value] ]
         \o Flatten(Tail(ps))

Pairs == Flatten(openapi_dict.paths)

RECURSIVE SynthUrl(_, _, _)
SynthUrl(url, first, ps) ==
    IF ps = <<>> THEN url
    ELSE LET r == ApplyParameter(url, first, Head(ps))
         IN  IF r.ok THEN SynthUrl(r.url, r.first, Tail(ps)) ELSE url

StubMethods == {PostStr, PatchStr, PutStr, DeleteStr}
KnownMethod(m) == Lower(m) \in ({GetStr} \cup StubMethods)

ExpectedEntry(pair) ==
    IF Lower(pair.method) = GetStr
    THEN [url |-> SynthUrl(api_url \o pair.template, TRUE, pair.operation.parameters),
          method |-> "GET", data |-> NoneVal]
    ELSE NoneVal

\* C6: when the listing returns, api_endpoints has one entry per (path
\* template, method key) pair in document order, the descriptor of
\* api_url + template for a get pair and None, kept in place, for a
\* post/patch/put/delete pair.
ListingComplete ==
    pc \in {"run", "done"} =>
        LET pairs == Pairs
        IN  /\ Len(api_endpoints) = Len(pairs)
            /\ \A k \in 1..Len(pairs) : api_endpoints[k] = ExpectedEntry(pairs[k])

\* Two paths, a None before a descriptor and a descriptor in the second path.
ListingCompleteWitness ==
    /\ pc = "run"
    /\ Len(openapi_dict.paths) = 2
    /\ Len(api_endpoints) = 3
    /\ api_endpoints[1] = NoneVal
    /\ api_endpoints[2] = EndpointDict(<<"x", "/", "4", "2">>)
    /\ api_endpoints[3] = EndpointDict(<<"x", "/", "a", "?", "q", "=", "1">>)

HasUnresolvableQuery(doc) ==
    \E k \in 1..Len(Flatten(doc.paths)) :
        LET pair == Flatten(doc.paths)[k]
        IN  /\ Lower(pair.method) = GetStr
            /\ \E i \in 1..Len(pair.operation.parameters) :
                  /\ IsQuery(pair.operation.parameters[i])
                  /\ ~HasQueryValue(pair.operation.parameters[i])

\* C7 as claimed: a document with a get operation that has a query parameter
\* without const, default and example never gets through the listing pass,
\* and no request is ever made.
MissingQueryValueAborts ==
    (remote.kind = "json" /\ "paths" \in DOMAIN remote.doc
       /\ HasUnresolvableQuery(remote.doc))
    => /\ pc \notin {"run", "done"}
       /\ sent = <<>>

RECURSIVE RequestsFor(_, _)
RequestsFor(endpoints, token) ==
    IF endpoints = <<>> THEN <<>>
    ELSE (IF Head(endpoints) = NoneVal THEN <<>>
          ELSE <<[method |-> Head(endpoints).method, headers |-> EncodedHeaders(token),
                  url |-> Head(endpoints).url, data |-> Head(endpoints).data]>>)
         \o RequestsFor(Tail(endpoints), token)

\* C8: the entry listed for a post, patch, put or delete operation is None
\* whatever its parameters, and the requests made are exactly those of the
\* entries before the Runner's position that are not None.
StubsMakeNoRequest ==
    /\ Walking =>
          LET pairs == Pairs
          IN  \A k \in 1..Len(api_endpoints) :
                  Lower(pairs[k].method) \in StubMethods => api_endpoints[k] = NoneVal
    /\ pc \in {"run", "done"} =>
          sent = RequestsFor(SubSeq(api_endpoints, 1, runIdx - 1), bearer_token)
    /\ pc \notin {"run", "done"} => sent = <<>>

\* The run ended with a None entry passed over and a request made after it.
StubsMakeNoRequestWitness ==
    /\ pc = "done"
    /\ Len(api_endpoints) = 2
    /\ api_endpoints[1] = NoneVal
    /\ Lower(Pairs[1].method) = PutStr
    /\ Pairs[1].operation = OpQuery
    /\ Len(sent) = 1

\* The method key generate_endpoint_dict was last called with.
LastMethod == openapi_dict.paths[pathIdx].value[methodIdx].key

\* C9: a method key that is not get, post, patch, put or delete in any
\* letter case ends the process at once with a ValueError whose message is
\* "Invalid method: " and the key as written; nothing is listed for it, and
\* the listing never completes.
UnknownMethodFailsFast ==
    Walking =>
        /\ LET pairs == Pairs
           IN  /\ \A k \in 1..Len(api_endpoints) : KnownMethod(pairs[k].method)
               /\ (\E k \in 1..Len(pairs) : ~KnownMethod(pairs[k].method))
                     => pc \notin {"run", "done"}
        /\ (pathIdx >= 1 /\ methodIdx >= 1 /\ ~KnownMethod(LastMethod))
              => /\ pc = "crashed"
                 /\ error = Raise("ValueError", "generate_endpoint_dict",
                                  InvalidMethodPrefix \o LastMethod)
        /\ (pc = "crashed" /\ error.type = "ValueError")
              => ~KnownMethod(LastMethod)

\* TRACE after one listed entry: the message keeps the upper case.
UnknownMethodWitness ==
    /\ pc = "crashed"
    /\ Len(api_endpoints) = 1
    /\ LastMethod = UpperTraceStr
    /\ error.arg = InvalidMethodPrefix \o UpperTraceStr

\* C10: after an unparseable body obtain_openapi_dict returns None without
\* raising; the process then ends in list_api_endpoints with the TypeError
\* of subscripting None, before any request.
MalformedSpecHalts ==
    remote.kind = "malformed" =>
        /\ sent = <<>>
        /\ \/ pc = "fetch"
           \/ pc = "list" /\ openapi_dict = NoneVal /\ error = NoError
           \/ /\ pc = "crashed"
              /\ error = Raise("TypeError", "list_api_endpoints", "paths")
              /\ stdout = <<[kind |-> "error", frame |-> "obtain_openapi_dict"]>>

MalformedSpecWitness ==
    /\ remote.kind = "malformed"
    /\ pc = "crashed"
    /\ error.frame = "list_api_endpoints"

AttemptsInOrder ==
    \A k \in 1..Len(stdout) :
        /\ k <= Len(api_endpoints)
        /\ api_endpoints[k] = NoneVal => stdout[k] = [kind |-> "error", msg |-> "TypeError"]
        /\ stdout[k].kind = "checked" => stdout[k].url = api_endpoints[k].url

RunnerProgress ==
    /\ Len(stdout) = runIdx - 1
    /\ AttemptsInOrder
    /\ sent = RequestsFor(SubSeq(api_endpoints, 1, runIdx - 1), bearer_token)
    /\ pc = "done" => runIdx = Len(api_endpoints) + 1

RunnerStep ==
    (pc = "run" /\ runIdx <= Len(api_endpoints))
    => /\ runIdx' = runIdx + 1
       /\ pc' = "run"

\* C1: each entry of the list, None or not, failing or not, is attempted once
\* and in order (one report per entry, one request per entry that is not
\* None, none repeated), a failure moves the loop to the next entry, and the
\* loop always reaches the end of the list.
RunnerResilience ==
    /\ []RunnerProgress
    /\ [][RunnerStep]_vars
    /\ <>(pc = "done")

\* Three descriptors, the second request raised, the first and third were
\* answered and reported.
RunnerResilienceWitness ==
    /\ pc = "done"
    /\ api_endpoints = <<DescriptorA, DescriptorB, DescriptorA>>
    /\ stdout[1].kind = "checked"
    /\ stdout[2] = [kind |-> "error", msg |-> "ConnectionError"]
    /\ stdout[3].kind = "checked"
    /\ Len(sent) = 3

====
